---- MODULE Spec2Model ----
(***************************************************************************)
(* A model of the Oracle Core of divination/sarah_fm2.5.py: the I Ching    *)
(* casting methods of IChingCaster, cast_iching_traditional with its       *)
(* secondary-hexagram derivation, the fixed planetary squares of           *)
(* MagicSquareGenerator and generate_custom_square.                        *)
(*                                                                         *)
(* Python lists are sequences (1-based here, 0-based in the source: index  *)
(* k of the source is index k+1 of the model).  A str of '0'/'1' is a      *)
(* sequence of one-character strings.  Every random draw of the source is  *)
(* a nondeterministic choice over the values the draw can produce.         *)
(***************************************************************************)
EXTENDS Integers, Sequences, FiniteSets, TLC

\* ------------------------------------------------------------ constants

\* range(6): the number of lines cast by cast_coins and cast_yarrow_stalks
NumLines == 6
\* range(3): the coins summed per line
NumCoins == 3
\* the value of a coin showing tails / heads
Tails == 2
Heads == 3
\* stalks = 50 at the start of each line
StartStalks == 50
\* range(3): divisions per line
NumDivisions == 3
\* if 3 <= size <= 9: the sizes generate_custom_square is called with
MinCustomSize == 3
MaxCustomSize == 9
\* the largest integer typed at the "Enter size (3-9)" prompt
MaxSizeInput == 12
\* the largest square handed to display_square on its own, and the largest
\* number its cells are filled with
MaxDisplaySize == 32
MaxFill == 3

\* the method strings cast_iching_traditional is called with; "dice" stands
\* for any string that is neither "coins" nor "yarrow" nor "random"
Methods == {"coins", "yarrow", "random", "dice"}

\* ------------------------------------------------------------- helpers

\* list.reverse()
Reverse(s) == [k \in 1..Len(s) |-> s[Len(s) + 1 - k]]

\* ''.join(['1' if x == 1 else '0' for x in lines])
BinaryOf(lines) == [k \in 1..Len(lines) |-> IF lines[k] = 1 THEN "1" ELSE "0"]

\* the trigrams dict of get_trigram_symbols; the glyphs are written by
\* their code points (U+2630 is the Heaven glyph, ..., U+2637 Earth)
TrigramGet(t) ==
  CASE t = <<"1","1","1">> -> "U+2630"
    [] t = <<"1","1","0">> -> "U+2631"
    [] t = <<"1","0","1">> -> "U+2632"
    [] t = <<"1","0","0">> -> "U+2633"
    [] t = <<"0","1","1">> -> "U+2634"
    [] t = <<"0","1","0">> -> "U+2635"
    [] t = <<"0","0","1">> -> "U+2636"
    [] t = <<"0","0","0">> -> "U+2637"
    [] OTHER -> "?"

\* (a variant that takes the lower trigram from the first three characters)
get_trigram_symbols_Swapped(binary_str) ==
  IF Len(binary_str) = 6
    THEN <<TrigramGet(SubSeq(binary_str, 1, 3)),
           TrigramGet(SubSeq(binary_str, 4, 6))>>
    ELSE <<"?", "?">>

\* get_trigram_symbols(binary_str): the returned tuple, lower_symbol first,
\* upper_symbol second; binary_str[3:] is characters 4..6 here, [:3] is 1..3
get_trigram_symbols(binary_str) ==
  IF Len(binary_str) = 6
    THEN <<TrigramGet(SubSeq(binary_str, 4, 6)),
           TrigramGet(SubSeq(binary_str, 1, 3))>>
    ELSE <<"?", "?">>

\* get_trigram_name(symbol): the trigram_names dict, "Unknown" for any other symbol
get_trigram_name(symbol) ==
  CASE symbol = "U+2630" -> "Heaven"
    [] symbol = "U+2631" -> "Lake"
    [] symbol = "U+2632" -> "Fire"
    [] symbol = "U+2633" -> "Thunder"
    [] symbol = "U+2634" -> "Wind"
    [] symbol = "U+2635" -> "Water"
    [] symbol = "U+2636" -> "Mountain"
    [] symbol = "U+2637" -> "Earth"
    [] OTHER -> "Unknown"

\* self.iching_hexagrams.get("hexagrams", {}).get(binary, default)["english"]
\* over the default table of load_default_data
HexagramEnglish(binary, default) ==
  CASE binary = <<"1","1","1","1","1","1">> -> "The Creative"
    [] binary = <<"0","0","0","0","0","0">> -> "The Receptive"
    [] OTHER -> default

\* the field names of the record that lookup returns: a record of the default
\* table, or the fields of the default passed to .get
HexagramFields(binary, default_fields) ==
  IF binary \in {<<"1","1","1","1","1","1">>, <<"0","0","0","0","0","0">>}
    THEN {"number", "english", "chinese", "judgment_english", "element", "planet"}
    ELSE default_fields

\* (a variant that sends "yarrow" to the random branch)
Dispatch_NoYarrow(m) == IF m = "coins" THEN "coins" ELSE "random"

\* the if/elif/else on method at the head of cast_iching_traditional: the
\* branch taken
Dispatch(m) ==
  IF m = "coins" THEN "coins" ELSE IF m = "yarrow" THEN "yarrow" ELSE "random"

\* (a variant that stores the secondary entries whether or not lines change)
ResultKeys_Always(has) ==
  {"binary", "lines", "changing_lines", "primary", "trigram_symbols",
   "secondary", "secondary_trigram_symbols"}

\* the keys of the dict cast_iching_traditional returns: the five of the
\* literal and, under "if changing_lines:", the two secondary entries
ResultKeys(has) ==
  {"binary", "lines", "changing_lines", "primary", "trigram_symbols"}
    \cup (IF has THEN {"secondary", "secondary_trigram_symbols"} ELSE {})
\* the line of a coin total / yarrow line value, and whether it is changing
\* (the if/elif chains of cast_coins and cast_yarrow_stalks): a value outside
\* 6..9 appends nothing
AppendsLine(v) == v \in {6, 7, 8, 9}
\* (a variant that reads old yang, 9, as a yin line)
LineOf_OldYangAsYin(v) == IF v = 7 THEN 1 ELSE 0
LineOf(v) == IF v = 7 \/ v = 9 THEN 1 ELSE 0
\* (a variant that forgets that old yin, 6, is changing)
IsChanging_OnlyOldYang(v) == v = 9
IsChanging(v) == v = 6 \/ v = 9

\* (a variant that records the 0-based loop counter)
CoinChangingNumber_ZeroBased(n) == n
\* cast_coins: changing_lines.append(line_num + 1)
CoinChangingNumber(n) == n + 1

\* cast_yarrow_stalks: changing_lines.append(6 - line_position)
YarrowChangingNumber(p) == 6 - p

\* cast_yarrow_stalks: [7 - line for line in changing_lines] if changing_lines else []
RemapChanging(changing) == [k \in 1..Len(changing) |-> 7 - changing[k]]

\* 4 if (g % 4 == 0) else g % 4
RemainderOf(g) == IF g % 4 = 0 THEN 4 ELSE g % 4

\* random.randint(1, stalks - 1) if stalks > 1, else 1: the values group1 can take
Splits(s) == IF s > 1 THEN 1..(s - 1) ELSE {1}

\* remainder = remainder1 + remainder2 for a pool of s stalks split at group1
RemainderSum(s, group1) == RemainderOf(group1) + RemainderOf(s - group1)

\* the pools one division can leave, over all splits, from the pools of S:
\* stalks -= 1, then stalks = stalks - remainder
StalksAfterDivision(S) ==
  {(s - 1) - RemainderSum(s - 1, g) : <<s, g>> \in
     {<<s, g>> \in S \X (1..StartStalks) : g \in Splits(s - 1)}}

\* the remainder sums the third division (division == 2) can produce, over
\* all splits of all three divisions, from the 50 stalks a line starts with
ThirdDivisionSums ==
  LET S == StalksAfterDivision(StalksAfterDivision({StartStalks})) IN
  {RemainderSum(s - 1, g) : <<s, g>> \in
     {<<s, g>> \in S \X (1..StartStalks) : g \in Splits(s - 1)}}

\* (a variant that counts a third-division sum of 7 as the 3)
LineValueOf_SevenCounts(remainder) ==
  (IF remainder = 4 THEN 1 ELSE 0) * 2 + (IF remainder = 7 THEN 1 ELSE 0) * 3

\* line_value = (remainder == 4) * 2 + (remainder == 8) * 3
LineValueOf(remainder) ==
  (IF remainder = 4 THEN 1 ELSE 0) * 2 + (IF remainder = 8 THEN 1 ELSE 0) * 3

\* (a variant that takes idx = line_num - 1, counting lines from the top)
RECURSIVE FlipLines_FromTop(_, _)
FlipLines_FromTop(lines, changing) ==
  IF changing = <<>> THEN lines
  ELSE LET idx == Head(changing) - 1
           next == IF 0 <= idx /\ idx < Len(lines)
                     THEN [lines EXCEPT ![idx + 1] = IF @ = 0 THEN 1 ELSE 0]
                     ELSE lines
       IN FlipLines_FromTop(next, Tail(changing))

\* (a variant that sets a changing line to yang instead of flipping it)
RECURSIVE FlipLines_SetYang(_, _)
FlipLines_SetYang(lines, changing) ==
  IF changing = <<>> THEN lines
  ELSE LET idx == 6 - Head(changing)
           next == IF 0 <= idx /\ idx < Len(lines)
                     THEN [lines EXCEPT ![idx + 1] = 1]
                     ELSE lines
       IN FlipLines_SetYang(next, Tail(changing))

\* the secondary-hexagram loop of cast_iching_traditional: for each line_num
\* of changing_lines, idx = 6 - line_num, flipped when 0 <= idx < len
RECURSIVE FlipLines(_, _)
FlipLines(lines, changing) ==
  IF changing = <<>> THEN lines
  ELSE LET idx == 6 - Head(changing)
           next == IF 0 <= idx /\ idx < Len(lines)
                     THEN [lines EXCEPT ![idx + 1] = IF @ = 0 THEN 1 ELSE 0]
                     ELSE lines
       IN FlipLines(next, Tail(changing))

\* (a variant without the .copy(): the flips land in hexagram_lines itself)
LinesAfterDerivation_Aliased(lines, secondary) == secondary

\* secondary_lines = hexagram_lines.copy(): the flips are made in a copy, so
\* the list held as result["lines"] is the primary one after the derivation
LinesAfterDerivation(lines, secondary) == lines

\* (a variant with the last two entries of the bottom row exchanged)
generate_saturn_square_Swapped ==
  << <<4, 9, 2>>,
     <<3, 5, 7>>,
     <<8, 6, 1>> >>

\* the 3x3 Saturn square (Lo Shu)
generate_saturn_square ==
  << <<4, 9, 2>>,
     <<3, 5, 7>>,
     <<8, 1, 6>> >>

\* (a variant with 14 mistyped as 15 in the top row)
generate_jupiter_square_Typo ==
  << <<4, 15, 15, 1>>,
     <<9, 7, 6, 12>>,
     <<5, 11, 10, 8>>,
     <<16, 2, 3, 13>> >>

\* the 4x4 Jupiter square
generate_jupiter_square ==
  << <<4, 14, 15, 1>>,
     <<9, 7, 6, 12>>,
     <<5, 11, 10, 8>>,
     <<16, 2, 3, 13>> >>

\* the 5x5 Mars square
generate_mars_square ==
  << <<11, 24, 7, 20, 3>>,
     <<4, 12, 25, 8, 16>>,
     <<17, 5, 13, 21, 9>>,
     <<10, 18, 1, 14, 22>>,
     <<23, 6, 19, 2, 15>> >>

\* the 6x6 Sun square
generate_sun_square ==
  << <<6, 32, 3, 34, 35, 1>>,
     <<7, 11, 27, 28, 8, 30>>,
     <<19, 14, 16, 15, 23, 24>>,
     <<18, 20, 22, 21, 17, 13>>,
     <<25, 29, 10, 9, 26, 12>>,
     <<36, 5, 33, 4, 2, 31>> >>

\* the 7x7 Venus square
generate_venus_square ==
  << <<22, 47, 16, 41, 10, 35, 4>>,
     <<5, 23, 48, 17, 42, 11, 29>>,
     <<30, 6, 24, 49, 18, 36, 12>>,
     <<13, 31, 7, 25, 43, 19, 37>>,
     <<38, 14, 32, 1, 26, 44, 20>>,
     <<21, 39, 8, 33, 2, 27, 45>>,
     <<46, 15, 40, 9, 34, 3, 28>> >>

\* the 8x8 Mercury square
generate_mercury_square ==
  << <<8, 58, 59, 5, 4, 62, 63, 1>>,
     <<49, 15, 14, 52, 53, 11, 10, 56>>,
     <<41, 23, 22, 44, 45, 19, 18, 48>>,
     <<32, 34, 35, 29, 28, 38, 39, 25>>,
     <<40, 26, 27, 37, 36, 30, 31, 33>>,
     <<17, 47, 46, 20, 21, 43, 42, 24>>,
     <<9, 55, 54, 12, 13, 51, 50, 16>>,
     <<64, 2, 3, 61, 60, 6, 7, 57>> >>

\* the 9x9 Moon square
generate_moon_square ==
  << <<37, 78, 29, 70, 21, 62, 13, 54, 5>>,
     <<6, 38, 79, 30, 71, 22, 63, 14, 46>>,
     <<47, 7, 39, 80, 31, 72, 23, 55, 15>>,
     <<16, 48, 8, 40, 81, 32, 64, 24, 56>>,
     <<57, 17, 49, 9, 41, 73, 33, 65, 25>>,
     <<26, 58, 18, 50, 1, 42, 74, 34, 66>>,
     <<67, 27, 59, 10, 51, 2, 43, 75, 35>>,
     <<36, 68, 19, 60, 11, 52, 3, 44, 76>>,
     <<77, 28, 69, 20, 61, 12, 53, 4, 45>> >>

\* the planet names get_square_by_planet is called with; "Pluto" stands for
\* any name that is not a key of planet_squares
PlanetNames == {"Saturn", "Jupiter", "Mars", "Sun", "Venus", "Mercury", "Moon", "Pluto"}

\* the planets that have a generate_*_square of their own
SevenPlanetNames == PlanetNames \ {"Pluto"}

\* the size arguments get_square_by_planet is called with; 0 stands for the
\* default None
SizeArgs == {0} \cup (3..9)

\* (a variant in which a given size decides the square of an unknown planet)
get_square_by_planet_UsesSize(p, s) ==
  CASE p = "Saturn"  -> [square |-> generate_saturn_square, size |-> 3]
    [] p = "Jupiter" -> [square |-> generate_jupiter_square, size |-> 4]
    [] p = "Mars"    -> [square |-> generate_mars_square, size |-> 5]
    [] p = "Sun"     -> [square |-> generate_sun_square, size |-> 6]
    [] p = "Venus"   -> [square |-> generate_venus_square, size |-> 7]
    [] p = "Mercury" -> [square |-> generate_mercury_square, size |-> 8]
    [] p = "Moon"    -> [square |-> generate_moon_square, size |-> 9]
    [] OTHER         -> IF s = 4 THEN [square |-> generate_jupiter_square, size |-> 4]
                        ELSE [square |-> generate_saturn_square, size |-> 3]

\* get_square_by_planet(planet_name, size): the pair (square, size); the size
\* parameter is only ever overwritten from planet_squares, never read
get_square_by_planet(p, s) ==
  CASE p = "Saturn"  -> [square |-> generate_saturn_square, size |-> 3]
    [] p = "Jupiter" -> [square |-> generate_jupiter_square, size |-> 4]
    [] p = "Mars"    -> [square |-> generate_mars_square, size |-> 5]
    [] p = "Sun"     -> [square |-> generate_sun_square, size |-> 6]
    [] p = "Venus"   -> [square |-> generate_venus_square, size |-> 7]
    [] p = "Mercury" -> [square |-> generate_mercury_square, size |-> 8]
    [] p = "Moon"    -> [square |-> generate_moon_square, size |-> 9]
    [] OTHER         -> [square |-> generate_saturn_square, size |-> 3]

\* square = [[0] * size for _ in range(size)]
ZeroSquare(n) == [r \in 1..n |-> [c \in 1..n |-> 0]]

\* (a variant that moves up and left instead of up and right)
SiameseMove_UpLeft(placed, i, j, n) ==
  LET new_i == (i - 1) % n
      new_j == (j - 1) % n
  IN IF placed[new_i + 1][new_j + 1] # 0
       THEN [i |-> (i + 1) % n, j |-> j]
       ELSE [i |-> new_i, j |-> new_j]

\* (a variant without the occupied-cell test: always up and right)
SiameseMove_NoFallback(placed, i, j, n) ==
  [i |-> (i - 1) % n, j |-> (j + 1) % n]

\* (a variant that moves down from the occupied cell, not from (i, j))
SiameseMove_DownFromNew(placed, i, j, n) ==
  LET new_i == (i - 1) % n
      new_j == (j + 1) % n
  IN IF placed[new_i + 1][new_j + 1] # 0
       THEN [i |-> (new_i + 1) % n, j |-> new_j]
       ELSE [i |-> new_i, j |-> new_j]

\* generate_custom_square, Siamese branch: the cell after (i, j), given the
\* square with the current number placed: up and right, wrapping, unless that
\* cell is occupied, and then one row down from (i, j)
SiameseMove(placed, i, j, n) ==
  LET new_i == (i - 1) % n
      new_j == (j + 1) % n
  IN IF placed[new_i + 1][new_j + 1] # 0
       THEN [i |-> (i + 1) % n, j |-> j]
       ELSE [i |-> new_i, j |-> new_j]

\* (a variant whose inner loop stops one column early: range(size - 1))
RowMajorMove_ShortRow(i, j, n) ==
  IF j + 1 < n - 1 THEN [i |-> i, j |-> j + 1] ELSE [i |-> i + 1, j |-> 0]

\* generate_custom_square, even branch: the cell after (i, j) in the nested
\* loops for i in range(size): for j in range(size)
RowMajorMove(i, j, n) ==
  IF j + 1 < n THEN [i |-> i, j |-> j + 1] ELSE [i |-> i + 1, j |-> 0]

\* (a variant with the halving bound to the 1 alone: size * (size**2 + 1 // 2))
MagicConstant_Precedence(n) == n * (n * n + (1 \div 2))

\* magic_constant = size * (size**2 + 1) // 2
MagicConstant(n) == (n * (n * n + 1)) \div 2

\* len(str(n)) for n >= 0: the number of decimal digits
RECURSIVE DecimalDigits(_)
DecimalDigits(n) == IF n < 10 THEN 1 ELSE 1 + DecimalDigits(n \div 10)

\* display_square(square): the returned text, by its parts: empty for the
\* "" of "if not square", else the size of the heading, the width of a
\* cell, the numbers of the grid and the magic constant of the last line
display_square(sq) ==
  IF sq = <<>>
    THEN [empty |-> TRUE, size |-> 0, cell_width |-> 0, cells |-> <<>>,
          magic_constant |-> 0]
    ELSE LET n == Len(sq)
             max_num == n * n
         IN [empty |-> FALSE, size |-> n, cell_width |-> DecimalDigits(max_num) + 2,
             cells |-> sq, magic_constant |-> MagicConstant(n)]

\* (a variant of the menu's guard that lets 10 through)
SizeAccepted_UpToTen(n) == MinCustomSize <= n /\ n <= MaxCustomSize + 1

\* generate_magic_square_menu: if 3 <= size <= 9
SizeAccepted(n) == MinCustomSize <= n /\ n <= MaxCustomSize

\* load_default_data("geomancy"): the "figures" table; a record is a function
\* from its field names, a binary string the sequence of its characters
LoadedGeomancyFigures ==
  (<<"1","1","1","1">> :>
     [name |-> "Via", binary |-> <<"1","1","1","1">>, meaning |-> "The Way",
      planet |-> "Moon", element |-> "Water"])
  @@
  (<<"0","0","0","0">> :>
     [name |-> "Caput Draconis", binary |-> <<"0","0","0","0">>,
      meaning |-> "Head of Dragon", planet |-> "Jupiter", element |-> "Earth"])

\* load_default_data("iching"): the "hexagrams" table
LoadedHexagrams ==
  (<<"1","1","1","1","1","1">> :>
     [number |-> 1, english |-> "The Creative", chinese |-> "U+4E7E",
      judgment_english |-> "Creative success", element |-> "Heaven", planet |-> "Sun"])
  @@
  (<<"0","0","0","0","0","0">> :>
     [number |-> 2, english |-> "The Receptive", chinese |-> "U+5764",
      judgment_english |-> "Receptive devotion", element |-> "Earth", planet |-> "Moon"])

\* display_geomantic_figure(binary_str) over the table figures: the name line
\* followed by one line of dots per bit
display_geomantic_figure(figures, binary_str) ==
  LET name == IF binary_str \in DOMAIN figures THEN figures[binary_str].name
                                                ELSE "Unknown"
  IN <<name>> \o [k \in 1..Len(binary_str) |->
                   IF binary_str[k] = "1" THEN "filled filled" ELSE "hollow hollow"]

\* the default passed to .get in generate_geomantic_figure
DefaultFigure(binary_str) ==
  [name |-> "Unknown", binary |-> binary_str, meaning |-> "No meaning available.",
   planet |-> "Moon", element |-> "Water", astrological |-> "Unknown"]

\* figure["display"] = ...: the dict with the key set
SetDisplay(rec, text) == [display |-> text] @@ rec

\* the figures table after generate_geomantic_figure drew binary_str: the dict
\* .get returns for a key of the table is the table's own record, so the
\* assignment to figure["display"] lands in the table
FiguresAfterGenerate(figures, binary_str) ==
  IF binary_str \in DOMAIN figures
    THEN [figures EXCEPT ![binary_str] =
            SetDisplay(@, display_geomantic_figure(figures, binary_str))]
    ELSE figures

\* the dict generate_geomantic_figure returns for binary_str
FigureGenerated(figures, binary_str) ==
  SetDisplay(IF binary_str \in DOMAIN figures THEN figures[binary_str]
                                               ELSE DefaultFigure(binary_str),
             display_geomantic_figure(figures, binary_str))

\* the geomantic arguments get_magic_square_for_geomantic is handed: a dict
\* with a "planet" key, or one without (the empty function)
GeomanticInputs == {[planet |-> p] : p \in PlanetNames} \cup {<<>>}

\* (a variant whose missing "planet" key falls to the final else: Saturn)
get_magic_square_for_geomantic_NoDefault(geomantic) ==
  LET planet == IF "planet" \in DOMAIN geomantic THEN geomantic["planet"] ELSE ""
  IN get_square_by_planet(planet, 0).square

\* get_magic_square_for_geomantic(geomantic): geomantic.get("planet", "Moon")
\* and the if/elif chain over the seven planets, else Saturn
get_magic_square_for_geomantic(geomantic) ==
  LET planet == IF "planet" \in DOMAIN geomantic THEN geomantic["planet"] ELSE "Moon"
  IN CASE planet = "Saturn"  -> generate_saturn_square
       [] planet = "Jupiter" -> generate_jupiter_square
       [] planet = "Mars"    -> generate_mars_square
       [] planet = "Sun"     -> generate_sun_square
       [] planet = "Venus"   -> generate_venus_square
       [] planet = "Mercury" -> generate_mercury_square
       [] planet = "Moon"    -> generate_moon_square
       [] OTHER              -> generate_saturn_square

\* PLANETARY_HOURS, the Chaldean order
PLANETARY_HOURS == <<"Saturn", "Jupiter", "Mars", "Sun", "Venus", "Mercury", "Moon">>

\* day_planets of both planetary-hour functions, indexed by weekday() 0..6
day_planets == <<"Sun", "Moon", "Mars", "Mercury", "Jupiter", "Venus", "Saturn">>

\* list.index(x): the 0-based position of x
IndexOf(list, x) == (CHOOSE k \in 1..Len(list) : list[k] = x) - 1

\* the minutes of a day, and of sunrise (hour=6) and sunset (hour=18), counted
\* from midnight
MinutesPerDay == 24 * 60
SunriseMinute == 6 * 60
SunsetMinute == 18 * 60

\* calculate_current_planetary_hour() when datetime.now() is minute t of a
\* day whose weekday() is wd: the returned dict
calculate_current_planetary_hour(wd, t) ==
  LET is_day == SunriseMinute <= t /\ t < SunsetMinute
      total_minutes == 12 * 60
      minutes_since ==
        IF is_day THEN t - SunriseMinute
        ELSE IF t < SunriseMinute THEN t - (SunsetMinute - MinutesPerDay)
        ELSE t - SunsetMinute
      hour_number == minutes_since \div (total_minutes \div 12)
      day_ruler == day_planets[wd + 1]
      start_index == IndexOf(PLANETARY_HOURS, day_ruler)
      planet_index == (start_index + hour_number) % 7
  IN [planet |-> PLANETARY_HOURS[planet_index + 1],
      hour_number |-> hour_number + 1,
      is_daytime |-> is_day]

\* get_planetary_hour_schedule(date) for a date whose weekday() is wd: the 12
\* day entries followed by the 12 night entries
get_planetary_hour_schedule(wd) ==
  LET day_ruler == day_planets[wd + 1]
      start_index == IndexOf(PLANETARY_HOURS, day_ruler)
  IN [i \in 1..12 |->
        [hour |-> i, planet |-> PLANETARY_HOURS[((start_index + (i - 1)) % 7) + 1],
         type |-> "day"]]
     \o
     [i \in 1..12 |->
        [hour |-> i, planet |-> PLANETARY_HOURS[((start_index + 12 + (i - 1)) % 7) + 1],
         type |-> "night"]]

\* the queries a reading is asked with
Queries == {"", "what now"}

\* the most readings a history is let grow to
MaxHistory == 4

\* (a variant that numbers a new entry len(self.history))
NewEntry_FromZero(history_list, query) ==
  [id |-> Len(history_list), query |-> query]

\* add_reading: the entry built for reading_data (its id and its query; the
\* other fields are copied from reading_data alike)
NewEntry(history_list, query) ==
  [id |-> Len(history_list) + 1, query |-> query]

\* what view_detailed_reading shows for no reading
NoReading == [id |-> 0, query |-> ""]

\* view_detailed_reading(reading_id) for an integer reading_id: "Invalid
\* reading ID" outside 1..len(history), else history[reading_id - 1] shown
\* under the heading "DETAILED READING #reading_id"
view_detailed_reading(history_list, reading_id) ==
  IF reading_id < 1 \/ reading_id > Len(history_list)
    THEN [valid |-> FALSE, heading |-> 0, reading |-> NoReading]
    ELSE [valid |-> TRUE, heading |-> reading_id,
          reading |-> history_list[(reading_id - 1) + 1]]

\* generate_custom_square(size): one pass of its loop, which places num at
\* the cell (i, j) of st and moves on
PlaceOne(st, n) ==
  LET placed == [st.sq EXCEPT ![st.i + 1][st.j + 1] = st.num]
      to == IF n % 2 = 1 THEN SiameseMove(placed, st.i, st.j, n)
                         ELSE RowMajorMove(st.i, st.j, n)
  IN [sq |-> placed, i |-> to.i, j |-> to.j, num |-> st.num + 1]

\* up to count passes of the loop, one after the other, the first half of
\* them and then the rest, ending when num has passed size*size
RECURSIVE FillRun(_, _, _)
FillRun(st, count, n) ==
  IF count = 0 \/ st.num > n * n THEN st
  ELSE IF count = 1 THEN PlaceOne(st, n)
  ELSE LET half == count \div 2
           first == FillRun(st, half, n)
       IN IF first.num > n * n THEN first
          ELSE FillRun(first, count - half, n)

\* generate_custom_square(size), the loops run to their end
generate_custom_square(n) ==
  FillRun([sq |-> ZeroSquare(n), i |-> 0, j |-> IF n % 2 = 1 THEN n \div 2 ELSE 0,
           num |-> 1],
          n * n, n).sq

\* the changing_lines list of cast_coins for the six totals: line_num + 1
\* of every total of 6 or 9, in casting order
RECURSIVE ChangingOf(_, _)
ChangingOf(coin_totals, line) ==
  IF line >= Len(coin_totals) THEN <<>>
  ELSE (IF AppendsLine(coin_totals[line + 1]) /\ IsChanging(coin_totals[line + 1])
          THEN <<CoinChangingNumber(line)>> ELSE <<>>)
       \o ChangingOf(coin_totals, line + 1)

\* the pair cast_coins returns for the six totals
cast_coins(coin_totals) ==
  [lines |-> Reverse([k \in 1..Len(coin_totals) |-> LineOf(coin_totals[k])]),
   changing |-> ChangingOf(coin_totals, 0)]

\* the coin totals of the castings whose lists are followed through the heap
SampleTotals == {<<9, 9, 9, 9, 9, 9>>, <<7, 8, 7, 8, 7, 8>>, <<6, 7, 8, 9, 8, 7>>}

\* the pairs (lines, changing lines) a caster call returns: cast_coins for
\* the sample totals; cast_yarrow_stalks, which appends to neither list;
\* cast_iching_traditional, whose result holds the caster's two lists, the
\* lines filled up to 6 in place, or the six drawn lines and a new []
CasterValues(fn) ==
  CASE fn = "cast_coins" -> {cast_coins(t) : t \in SampleTotals}
    [] fn = "cast_yarrow_stalks" -> {[lines |-> <<>>, changing |-> <<>>]}
    [] OTHER -> {cast_coins(t) : t \in SampleTotals}
                  \cup {[lines |-> <<1, 0, 1, 1, 0, 0>>, changing |-> <<>>]}

\* the heap: the list objects created so far, an object's address its index;
\* a list of lists holds the addresses of its rows

\* (a variant in which the lists of a call are created once and reused)
Fresh_Cached(h, n) == [k \in 1..n |-> k]

\* the addresses of n lists created by list displays, comprehensions or []:
\* each evaluation creates an object that did not exist before
Fresh(h, n) == [k \in 1..n |-> Len(h) + k]

\* the heap h with the lists contents written at the addresses addrs
Store(h, addrs, contents) ==
  LET top == IF \E k \in 1..Len(addrs) : addrs[k] > Len(h)
               THEN CHOOSE a \in {addrs[k] : k \in 1..Len(addrs)} :
                      \A k \in 1..Len(addrs) : addrs[k] <= a
               ELSE Len(h)
  IN [a \in 1..top |->
        IF \E k \in 1..Len(addrs) : addrs[k] = a
          THEN contents[CHOOSE k \in 1..Len(addrs) : addrs[k] = a]
          ELSE h[a]]

\* a returned list of lists of value sq: its rows first, then the outer list
SquareAddrs(h, sq) == Fresh(h, Len(sq) + 1)
StoreSquare(h, sq) ==
  LET at == SquareAddrs(h, sq)
  IN Store(h, at, sq \o <<SubSeq(at, 1, Len(sq))>>)

\* a returned pair of lists (lines, changing lines)
StorePair(h, pair) == Store(h, Fresh(h, 2), <<pair.lines, pair.changing>>)

\* the value a held reference denotes in the heap h
DeepValue(h, v) ==
  IF v.kind = "square"
    THEN [r \in 1..Len(h[v.refs[1]]) |-> h[h[v.refs[1]][r]]]
    ELSE [lines |-> h[v.refs[1]], changing |-> h[v.refs[2]]]

\* what a caller writes into a list it was handed
Marker == 0 - 1

\* ---------------------------------------------------------------- state

VARIABLES
  pc,               \* where the program is: "idle" between calls, else the loop it is in
  last,             \* the call whose results the state holds: "none", "cast", ...
  method,           \* the method argument of cast_iching_traditional
  hexagram_lines,   \* the caster's / cast_iching_traditional's hexagram_lines
  changing_lines,   \* the caster's / cast_iching_traditional's changing_lines
  line_num,         \* cast_coins: the loop counter
  totals,           \* cast_coins: the total of each line cast so far
  heads,            \* cast_coins: how many of the coins flipped so far showed heads
  line_position,    \* cast_yarrow_stalks: the outer loop counter
  division,         \* cast_yarrow_stalks: the inner loop counter
  stalks,           \* cast_yarrow_stalks: the stalk pool
  line_value,       \* cast_yarrow_stalks: the line value of the current line
  thirds,           \* cast_yarrow_stalks: the remainder of each third division so far
  values,           \* cast_yarrow_stalks: the line value of each line so far
  ret_lines,        \* the line list the caster returned (before any padding)
  padded,           \* how many lines cast_iching_traditional appended at random
  secondary_lines,  \* cast_iching_traditional: secondary_lines
  secondary_binary, \* cast_iching_traditional: secondary_binary
  result,           \* the dict cast_iching_traditional returns
  planet_name,      \* get_square_by_planet: the planet_name argument
  square,           \* the square being built or returned
  size,             \* the size returned with / asked of the square
  sq_i,             \* generate_custom_square: i, the current row
  sq_j,             \* generate_custom_square: j, the current column
  num,              \* generate_custom_square: the number placed next
  size_arg,         \* get_square_by_planet: the size argument (0 for None)
  requested,        \* generate_magic_square_menu: the integer typed as the size
  input_is_int,     \* generate_magic_square_menu: whether int() accepted what was typed
  message,          \* generate_magic_square_menu: the error line it printed, "" for none
  printed,          \* the texts display_square returned and the menu printed
  saved             \* generate_magic_square_menu: whether save_magic_square was called

VARIABLES
  geomancy_figures, \* self.geomancy_figures["figures"]
  iching_hexagrams, \* self.iching_hexagrams["hexagrams"]
  figure,           \* the dict generate_geomantic_figure returned, <<>> for none
  geomantic,        \* get_magic_square_for_geomantic: the geomantic argument
  geo_square        \* get_magic_square_for_geomantic: the square returned

VARIABLES
  weekday,          \* datetime.now().weekday(), 0 for Monday
  now,              \* datetime.now(), as the minute of the day
  hour_result,      \* the dict calculate_current_planetary_hour returned
  schedule,         \* the list get_planetary_hour_schedule returned
  history,          \* ReadingHistory.history
  before,           \* history as it was before the last operation on it
  last_op,          \* the last operation on the history
  query,            \* add_reading: the query of reading_data
  viewed,           \* what view_detailed_reading showed
  cleared,          \* whether the history has been cleared since construction
  heap,             \* the list objects created by the calls followed
  earlier,          \* the value an earlier call returned
  later,            \* the value a later call returned
  touched           \* which of the two the caller has modified

\* the loaded tables
tablevars == <<geomancy_figures, iching_hexagrams>>

\* the variables of a geomantic call
geovars == <<figure, geomantic, geo_square>>

\* the variables of the planetary-hour functions
hourvars == <<weekday, now, hour_result, schedule>>

\* the variables of the reading history
histvars == <<history, before, last_op, query, viewed, cleared>>

\* the variables a reading call leaves alone
\* the variables of the two calls whose returned lists are followed
freshvars == <<heap, earlier, later, touched>>

sidevars == <<hourvars, histvars, freshvars>>

\* the variables that outlive a call
keptvars == <<tablevars, sidevars>>

\* the variables the casting and square calls do not touch
extvars == <<geovars, keptvars>>

sqvars == <<planet_name, square, size, sq_i, sq_j, num, size_arg, requested,
            input_is_int, message, printed, saved>>

vars == <<pc, last, method, hexagram_lines, changing_lines, line_num, totals, heads,
          line_position, division, stalks, line_value, thirds, values,
          ret_lines, padded, secondary_lines, secondary_binary, result,
          planet_name, square, size, sq_i, sq_j, num, size_arg, requested,
          input_is_int, message, printed, saved,
          geomancy_figures, iching_hexagrams, figure, geomantic, geo_square,
          weekday, now, hour_result, schedule,
          history, before, last_op, query, viewed, cleared,
          heap, earlier, later, touched>>

castvars == <<method, hexagram_lines, changing_lines, line_num, totals, heads,
              line_position, division, stalks, line_value, thirds, values,
              ret_lines, padded, secondary_lines, secondary_binary, result>>

NoResult == [keys |-> {},
             binary |-> <<>>, lines |-> <<>>, changing_lines |-> <<>>,
             primary |-> "", trigram_symbols |-> [lower |-> "", upper |-> ""],
             has_secondary |-> FALSE, secondary |-> "", secondary_fields |-> {},
             secondary_trigram_symbols |-> [lower |-> "", upper |-> ""]]

\* nothing of a casting is held
CastCleared ==
  /\ method' = "" /\ hexagram_lines' = <<>> /\ changing_lines' = <<>>
  /\ line_num' = 0 /\ totals' = <<>> /\ heads' = 0
  /\ line_position' = 0 /\ division' = 0 /\ stalks' = 0 /\ line_value' = 0
  /\ thirds' = <<>> /\ values' = <<>>
  /\ ret_lines' = <<>> /\ padded' = 0
  /\ secondary_lines' = <<>> /\ secondary_binary' = <<>>
  /\ result' = NoResult

\* nothing of a geomantic call is held
GeoCleared ==
  /\ figure' = <<>> /\ geomantic' = <<>> /\ geo_square' = <<>>

\* no planetary hour has been calculated
NoHour == [planet |-> "", hour_number |-> 0, is_daytime |-> FALSE]

\* nothing has been viewed
NotViewed == [valid |-> FALSE, heading |-> 0, reading |-> NoReading]

\* the tables loaded, no geomantic call made
TablesInit ==
  /\ geomancy_figures = LoadedGeomancyFigures
  /\ iching_hexagrams = LoadedHexagrams
  /\ figure = <<>> /\ geomantic = <<>> /\ geo_square = <<>>

\* no planetary hour asked for
HoursInit ==
  /\ weekday = 0 /\ now = 0
  /\ hour_result = NoHour /\ schedule = <<>>

\* an empty history
HistoryInit ==
  /\ history = <<>> /\ before = <<>> /\ last_op = "none"
  /\ query = "" /\ viewed = NotViewed
  /\ cleared = FALSE

\* no value returned
NoValue == [call |-> "", kind |-> "", refs |-> <<>>, value |-> <<>>]

\* no call followed yet
FreshInit ==
  /\ heap = <<>> /\ earlier = NoValue /\ later = NoValue /\ touched = "none"

\* the state of the added variables after construction
ExtInit ==
  /\ TablesInit
  /\ HoursInit
  /\ HistoryInit
  /\ FreshInit

\* nothing of a square is held
SquareCleared ==
  /\ planet_name' = "" /\ square' = <<>> /\ size' = 0
  /\ sq_i' = 0 /\ sq_j' = 0 /\ num' = 0
  /\ size_arg' = 0 /\ requested' = 0 /\ input_is_int' = TRUE
  /\ message' = "" /\ printed' = <<>> /\ saved' = FALSE

MainInit ==
  /\ pc = "idle" /\ last = "none"
  /\ method = "" /\ hexagram_lines = <<>> /\ changing_lines = <<>>
  /\ line_num = 0 /\ totals = <<>> /\ heads = 0
  /\ line_position = 0 /\ division = 0 /\ stalks = 0 /\ line_value = 0
  /\ thirds = <<>> /\ values = <<>>
  /\ ret_lines = <<>> /\ padded = 0
  /\ secondary_lines = <<>> /\ secondary_binary = <<>>
  /\ result = NoResult
  /\ planet_name = "" /\ square = <<>> /\ size = 0
  /\ sq_i = 0 /\ sq_j = 0 /\ num = 0
  /\ size_arg = 0 /\ requested = 0 /\ input_is_int = TRUE
  /\ message = "" /\ printed = <<>> /\ saved = FALSE

Init ==
  /\ MainInit
  /\ ExtInit

\* -------------------------------------------------------------- casting

\* cast_iching_traditional(method) is called: the dispatch of its first lines
CastStart ==
  /\ pc = "idle"
  /\ \E m \in Methods :
       /\ method' = m
       /\ pc' = Dispatch(m)
       /\ stalks' = IF Dispatch(m) = "yarrow" THEN StartStalks ELSE 0
  /\ last' = "none"
  /\ hexagram_lines' = <<>> /\ changing_lines' = <<>>
  /\ line_num' = 0 /\ totals' = <<>> /\ heads' = 0
  /\ line_position' = 0 /\ division' = 0 /\ line_value' = 0
  /\ thirds' = <<>> /\ values' = <<>>
  /\ ret_lines' = <<>> /\ padded' = 0
  /\ secondary_lines' = <<>> /\ secondary_binary' = <<>>
  /\ result' = NoResult
  /\ SquareCleared
  /\ GeoCleared
  /\ UNCHANGED keptvars

\* the random branch: hexagram_lines = [random.randint(0, 1) for _ in range(6)],
\* changing_lines = []
RandomLines ==
  /\ pc = "random"
  /\ \E ls \in [1..6 -> {0, 1}] : hexagram_lines' = ls
  /\ changing_lines' = <<>>
  /\ ret_lines' = hexagram_lines'
  /\ pc' = "returned"
  /\ UNCHANGED <<last, method, line_num, totals, heads, line_position, division,
                 stalks, line_value, thirds, values, padded, secondary_lines,
                 secondary_binary, result>>
  /\ UNCHANGED sqvars
  /\ UNCHANGED extvars

\* cast_coins: one pass of the loop over line_num
CoinsLine ==
  /\ pc = "coins"
  /\ line_num < NumLines
  /\ \E coins \in [1..NumCoins -> {Tails, Heads}] :
       LET total == coins[1] + coins[2] + coins[3] IN
       /\ totals' = Append(totals, total)
       /\ heads' = heads + Cardinality({c \in 1..NumCoins : coins[c] = Heads})
       /\ hexagram_lines' = IF AppendsLine(total)
                              THEN Append(hexagram_lines, LineOf(total))
                              ELSE hexagram_lines
       /\ changing_lines' = IF AppendsLine(total) /\ IsChanging(total)
                              THEN Append(changing_lines, CoinChangingNumber(line_num))
                              ELSE changing_lines
  /\ line_num' = line_num + 1
  /\ UNCHANGED <<pc, last, method, line_position, division, stalks, line_value,
                 thirds, values, ret_lines, padded, secondary_lines,
                 secondary_binary, result>>
  /\ UNCHANGED sqvars
  /\ UNCHANGED extvars

\* cast_coins: hexagram_lines.reverse(); return hexagram_lines, changing_lines
CoinsReturn ==
  /\ pc = "coins"
  /\ line_num = NumLines
  /\ hexagram_lines' = Reverse(hexagram_lines)
  /\ ret_lines' = hexagram_lines'
  /\ pc' = "returned"
  /\ UNCHANGED <<last, method, changing_lines, line_num, totals, heads, line_position,
                 division, stalks, line_value, thirds, values, padded,
                 secondary_lines, secondary_binary, result>>
  /\ UNCHANGED sqvars
  /\ UNCHANGED extvars

\* cast_yarrow_stalks: one pass of the loop over division
YarrowDivision ==
  /\ pc = "yarrow"
  /\ line_position < NumLines
  /\ division < NumDivisions
  /\ LET s == stalks - 1 IN
     \E group1 \in Splits(s) :
       LET remainder == RemainderSum(s, group1)
       IN /\ stalks' = s - remainder
          /\ line_value' = IF division = 2 THEN LineValueOf(remainder) ELSE line_value
          /\ thirds' = IF division = 2 THEN Append(thirds, remainder) ELSE thirds
  /\ division' = division + 1
  /\ UNCHANGED <<pc, last, method, hexagram_lines, changing_lines, line_num,
                 totals, heads, line_position, values, ret_lines, padded,
                 secondary_lines, secondary_binary, result>>
  /\ UNCHANGED sqvars
  /\ UNCHANGED extvars

\* cast_yarrow_stalks: the mapping of line_value to a line, and the start of
\* the next pass of the loop over line_position
YarrowLine ==
  /\ pc = "yarrow"
  /\ line_position < NumLines
  /\ division = NumDivisions
  /\ values' = Append(values, line_value)
  /\ hexagram_lines' = IF AppendsLine(line_value)
                         THEN Append(hexagram_lines, LineOf(line_value))
                         ELSE hexagram_lines
  /\ changing_lines' = IF AppendsLine(line_value) /\ IsChanging(line_value)
                         THEN Append(changing_lines, YarrowChangingNumber(line_position))
                         ELSE changing_lines
  /\ line_position' = line_position + 1
  /\ division' = 0
  /\ stalks' = StartStalks
  /\ line_value' = 0
  /\ UNCHANGED <<pc, last, method, line_num, totals, heads, thirds, ret_lines, padded,
                 secondary_lines, secondary_binary, result>>
  /\ UNCHANGED sqvars
  /\ UNCHANGED extvars

\* cast_yarrow_stalks: reverse, remap the changing lines by 7 - line, return
YarrowReturn ==
  /\ pc = "yarrow"
  /\ line_position = NumLines
  /\ hexagram_lines' = Reverse(hexagram_lines)
  /\ changing_lines' = RemapChanging(changing_lines)
  /\ ret_lines' = hexagram_lines'
  /\ pc' = "returned"
  /\ UNCHANGED <<last, method, line_num, totals, heads, line_position, division,
                 stalks, line_value, thirds, values, padded, secondary_lines,
                 secondary_binary, result>>
  /\ UNCHANGED sqvars
  /\ UNCHANGED extvars

\* cast_iching_traditional after the caster has returned: the padding to 6
\* lines, the binary key, the trigrams, the lookup, the secondary hexagram
CastFinish ==
  /\ pc = "returned"
  /\ \E pad \in [1..(IF Len(hexagram_lines) < 6 THEN 6 - Len(hexagram_lines) ELSE 0) -> {0, 1}] :
       LET lines == hexagram_lines \o pad
           hexagram_binary == BinaryOf(lines)
           sec_lines == FlipLines(lines, changing_lines)
           sec_binary == BinaryOf(sec_lines)
           has == changing_lines # <<>>
           trigrams == get_trigram_symbols(hexagram_binary)
           sec_trigrams == get_trigram_symbols(sec_binary)
       IN /\ hexagram_lines' = (IF has THEN LinesAfterDerivation(lines, sec_lines) ELSE lines)
          /\ padded' = Len(pad)
          /\ secondary_lines' = IF has THEN sec_lines ELSE <<>>
          /\ secondary_binary' = IF has THEN sec_binary ELSE <<>>
          /\ result' =
               [keys |-> ResultKeys(has),
                binary |-> hexagram_binary,
                lines |-> IF has THEN LinesAfterDerivation(lines, sec_lines) ELSE lines,
                changing_lines |-> changing_lines,
                primary |-> HexagramEnglish(hexagram_binary, "Unknown"),
                trigram_symbols |-> [lower |-> trigrams[1], upper |-> trigrams[2]],
                has_secondary |-> has,
                secondary |-> IF has THEN HexagramEnglish(sec_binary, "Unknown Secondary")
                                     ELSE "",
                secondary_fields |->
                  IF has THEN HexagramFields(sec_binary, {"english", "judgment_english"})
                         ELSE {},
                secondary_trigram_symbols |->
                  IF has THEN [lower |-> sec_trigrams[1], upper |-> sec_trigrams[2]]
                         ELSE [lower |-> "", upper |-> ""]]
  /\ pc' = "idle"
  /\ last' = "cast"
  /\ UNCHANGED <<method, changing_lines, line_num, totals, heads, line_position,
                 division, stalks, line_value, thirds, values, ret_lines>>
  /\ UNCHANGED sqvars
  /\ UNCHANGED extvars

\* -------------------------------------------------------------- squares

\* get_square_by_planet(planet_name, size) is called and returns; its caller
\* goes on to display the square
GetSquareByPlanet ==
  /\ pc = "idle"
  /\ \E p \in PlanetNames, s \in SizeArgs :
       /\ planet_name' = p
       /\ size_arg' = s
       /\ square' = get_square_by_planet(p, s).square
       /\ size' = get_square_by_planet(p, s).size
  /\ sq_i' = 0 /\ sq_j' = 0 /\ num' = 0
  /\ requested' = 0 /\ input_is_int' = TRUE
  /\ message' = "" /\ printed' = <<>> /\ saved' = FALSE
  /\ last' = "planet"
  /\ pc' = "display"
  /\ CastCleared
  /\ GeoCleared
  /\ UNCHANGED keptvars

\* generate_magic_square_menu, choice 8, with a size that is not an integer
\* ("Invalid size") or is outside 3..9 ("Size must be between 3 and 9"): the
\* message is printed and the menu returns
MenuSizeRejected ==
  /\ pc = "idle"
  /\ \/ /\ input_is_int' = FALSE
        /\ requested' = 0
        /\ message' = "Invalid size"
     \/ \E n \in (-1)..MaxSizeInput :
          /\ ~SizeAccepted(n)
          /\ input_is_int' = TRUE
          /\ requested' = n
          /\ message' = "Size must be between 3 and 9"
  /\ planet_name' = "" /\ square' = <<>> /\ size' = 0
  /\ sq_i' = 0 /\ sq_j' = 0 /\ num' = 0
  /\ size_arg' = 0 /\ printed' = <<>> /\ saved' = FALSE
  /\ last' = "rejected"
  /\ pc' = "idle"
  /\ CastCleared
  /\ GeoCleared
  /\ UNCHANGED keptvars

\* generate_custom_square(size) is called: the zero square and, for an odd
\* size, the start of the Siamese loop; for an even size the whole
\* sequential fill and the return
CustomStart ==
  /\ pc = "idle"
  /\ \E n \in (-1)..MaxSizeInput :
       /\ SizeAccepted(n)
       /\ requested' = n
       /\ size' = n
       /\ square' = ZeroSquare(n)
       /\ IF n % 2 = 1
            THEN pc' = "siamese" /\ sq_i' = 0 /\ sq_j' = n \div 2
            ELSE pc' = "even" /\ sq_i' = 0 /\ sq_j' = 0
  /\ num' = 1
  /\ last' = "none"
  /\ planet_name' = "" /\ size_arg' = 0 /\ input_is_int' = TRUE
  /\ message' = "" /\ printed' = <<>> /\ saved' = FALSE
  /\ CastCleared
  /\ GeoCleared
  /\ UNCHANGED keptvars

\* generate_custom_square: one pass of the Siamese loop over num
SiameseStep ==
  /\ pc = "siamese"
  /\ num <= size * size
  /\ LET placed == [square EXCEPT ![sq_i + 1][sq_j + 1] = num]
         to == SiameseMove(placed, sq_i, sq_j, size)
     IN /\ square' = placed
        /\ sq_i' = to.i
        /\ sq_j' = to.j
  /\ num' = num + 1
  /\ UNCHANGED <<pc, last, planet_name, size, size_arg, requested, input_is_int,
                 message, printed, saved>>
  /\ UNCHANGED castvars
  /\ UNCHANGED extvars

\* generate_custom_square: one pass of the inner loop of the even branch
EvenStep ==
  /\ pc = "even"
  /\ sq_i < size
  /\ square' = [square EXCEPT ![sq_i + 1][sq_j + 1] = num]
  /\ sq_i' = RowMajorMove(sq_i, sq_j, size).i
  /\ sq_j' = RowMajorMove(sq_i, sq_j, size).j
  /\ num' = num + 1
  /\ UNCHANGED <<pc, last, planet_name, size, size_arg, requested, input_is_int,
                 message, printed, saved>>
  /\ UNCHANGED castvars
  /\ UNCHANGED extvars

\* generate_custom_square: return square
CustomReturn ==
  /\ \/ pc = "siamese" /\ num > size * size
     \/ pc = "even" /\ sq_i >= size
  /\ pc' = "display"
  /\ last' = "custom"
  /\ UNCHANGED sqvars
  /\ UNCHANGED castvars
  /\ UNCHANGED extvars

\* print(self.magic_squares.display_square(square, title))
DisplaySquare ==
  /\ pc = "display"
  /\ printed' = Append(printed, display_square(square))
  /\ pc' = "save"
  /\ UNCHANGED <<last, planet_name, square, size, sq_i, sq_j, num, size_arg,
                 requested, input_is_int, message, saved>>
  /\ UNCHANGED castvars
  /\ UNCHANGED extvars

\* the answer to "Save square to file? (y/n)": save_magic_square(square, title)
\* is called when it is 'y'; the menu returns
SaveSquare ==
  /\ pc = "save"
  /\ \E answer_y \in BOOLEAN : saved' = answer_y
  /\ pc' = "idle"
  /\ UNCHANGED <<last, planet_name, square, size, sq_i, sq_j, num, size_arg,
                 requested, input_is_int, message, printed>>
  /\ UNCHANGED castvars
  /\ UNCHANGED extvars

Next ==
  \/ CastStart
  \/ RandomLines
  \/ CoinsLine
  \/ CoinsReturn
  \/ YarrowDivision
  \/ YarrowLine
  \/ YarrowReturn
  \/ CastFinish
  \/ GetSquareByPlanet
  \/ MenuSizeRejected
  \/ CustomStart
  \/ SiameseStep
  \/ EvenStep
  \/ CustomReturn
  \/ DisplaySquare
  \/ SaveSquare

Spec == Init /\ [][Next]_vars

\* generate_geomantic_figure() is called and returns
GenerateGeomanticFigure ==
  /\ pc = "idle"
  /\ \E binary_str \in [1..4 -> {"0", "1"}] :
       /\ figure' = FigureGenerated(geomancy_figures, binary_str)
       /\ geomancy_figures' = FiguresAfterGenerate(geomancy_figures, binary_str)
  /\ geomantic' = <<>> /\ geo_square' = <<>>
  /\ last' = "figure"
  /\ UNCHANGED <<pc, iching_hexagrams, sidevars>>
  /\ CastCleared
  /\ SquareCleared

\* get_magic_square_for_geomantic(geomantic) is called, with the figure just
\* generated or with any other dict, and returns
GetMagicSquareForGeomantic ==
  /\ pc = "idle"
  /\ \E g \in GeomanticInputs \cup (IF last = "figure" THEN {figure} ELSE {}) :
       /\ geomantic' = g
       /\ geo_square' = get_magic_square_for_geomantic(g)
  /\ last' = "geosquare"
  /\ UNCHANGED <<pc, figure, keptvars>>
  /\ CastCleared
  /\ SquareCleared

\* a reading session: castings, geomantic figures and their squares, in any order
NextTables ==
  \/ CastStart
  \/ RandomLines
  \/ CoinsLine
  \/ CoinsReturn
  \/ YarrowDivision
  \/ YarrowLine
  \/ YarrowReturn
  \/ CastFinish
  \/ GenerateGeomanticFigure
  \/ GetMagicSquareForGeomantic

SpecTables == Init /\ [][NextTables]_vars

\* the variables of the casting and square calls
mainvars == <<pc, last, castvars, sqvars>>

\* the planetary-hour functions on their own: any weekday, any minute of the day
InitHours ==
  /\ MainInit
  /\ TablesInit
  /\ HistoryInit
  /\ FreshInit
  /\ weekday \in 0..6
  /\ now \in 0..(MinutesPerDay - 1)
  /\ hour_result = NoHour /\ schedule = <<>>

\* calculate_current_planetary_hour() is called and returns
CalculateHour ==
  /\ hour_result = NoHour
  /\ hour_result' = calculate_current_planetary_hour(weekday, now)
  /\ UNCHANGED <<weekday, now, schedule>>
  /\ UNCHANGED <<mainvars, geovars, tablevars, histvars, freshvars>>

\* get_planetary_hour_schedule() is called for the same date and returns
GetSchedule ==
  /\ schedule = <<>>
  /\ schedule' = get_planetary_hour_schedule(weekday)
  /\ UNCHANGED <<weekday, now, hour_result>>
  /\ UNCHANGED <<mainvars, geovars, tablevars, histvars, freshvars>>

NextHours ==
  \/ CalculateHour
  \/ GetSchedule

SpecHours == InitHours /\ [][NextHours]_vars

\* add_reading(reading_data): the entry is appended
AddReading ==
  /\ Len(history) < MaxHistory
  /\ \E q \in Queries :
       /\ query' = q
       /\ history' = Append(history, NewEntry(history, q))
  /\ before' = history
  /\ last_op' = "add"
  /\ viewed' = NotViewed
  /\ UNCHANGED cleared
  /\ UNCHANGED <<mainvars, geovars, tablevars, hourvars, freshvars>>

\* self.history_manager.history = [] after the confirmation, in
\* view_reading_history (option 4), data_management and reset_system
ClearHistory ==
  /\ \E by \in {"view_reading_history", "data_management", "reset_system"} :
       last_op' = by
  /\ history' = <<>>
  /\ before' = history
  /\ query' = "" /\ viewed' = NotViewed
  /\ cleared' = TRUE
  /\ UNCHANGED <<mainvars, geovars, tablevars, hourvars, freshvars>>

\* view_detailed_reading(reading_id): an input int() accepts, or one it does
\* not ("Invalid reading ID")
ViewDetailedReading ==
  /\ \/ \E reading_id \in 0..(MaxHistory + 1) :
          viewed' = view_detailed_reading(history, reading_id)
     \/ viewed' = [valid |-> FALSE, heading |-> 0, reading |-> NoReading]
  /\ last_op' = "view"
  /\ before' = history
  /\ UNCHANGED <<history, query, cleared>>
  /\ UNCHANGED <<mainvars, geovars, tablevars, hourvars, freshvars>>

NextHistory ==
  \/ AddReading
  \/ ClearHistory
  \/ ViewDetailedReading

SpecHistory == Init /\ [][NextHistory]_vars

\* a call has returned v: it is the earlier value, or the later one
Returned(v) ==
  IF earlier = NoValue
    THEN earlier' = v /\ later' = later
    ELSE earlier' = earlier /\ later' = v

\* a square call returns: generate_*_square, get_square_by_planet (which
\* returns generator()) or generate_custom_square
CallSquare ==
  /\ later = NoValue
  /\ \E c \in {[call |-> "get_square_by_planet", arg |-> p,
                 value |-> get_square_by_planet(p, 0).square] : p \in PlanetNames}
            \cup {[call |-> "generate_square", arg |-> p,
                    value |-> get_square_by_planet(p, 0).square] : p \in SevenPlanetNames}
            \cup {[call |-> "generate_custom_square", arg |-> "",
                    value |-> generate_custom_square(n)] :
                      n \in MinCustomSize..MaxCustomSize} :
       /\ heap' = StoreSquare(heap, c.value)
       /\ Returned([call |-> c.call, kind |-> "square",
                    refs |-> <<SquareAddrs(heap, c.value)[Len(c.value) + 1]>>,
                    value |-> c.value])
  /\ UNCHANGED touched
  /\ UNCHANGED <<mainvars, geovars, tablevars, hourvars, histvars>>

\* a casting call returns its two lists
CallCaster ==
  /\ later = NoValue
  /\ \E fn \in {"cast_coins", "cast_yarrow_stalks", "cast_iching_traditional"} :
       \E pair \in CasterValues(fn) :
         /\ heap' = StorePair(heap, pair)
         /\ Returned([call |-> fn, kind |-> "pair", refs |-> Fresh(heap, 2),
                      value |-> pair])
  /\ UNCHANGED touched
  /\ UNCHANGED <<mainvars, geovars, tablevars, hourvars, histvars>>

\* the caller writes into a row of a square it was returned: sq[r][c] = Marker
ModifySquare ==
  /\ touched = "none"
  /\ \E who \in {"earlier", "later"} :
       LET v == IF who = "earlier" THEN earlier ELSE later IN
       /\ v.kind = "square"
       /\ \E r \in 1..Len(heap[v.refs[1]]) :
            LET row == heap[v.refs[1]][r] IN
            \E c \in 1..Len(heap[row]) :
              heap' = [heap EXCEPT ![row][c] = Marker]
       /\ touched' = who
  /\ UNCHANGED <<earlier, later>>
  /\ UNCHANGED <<mainvars, geovars, tablevars, hourvars, histvars>>

\* the caller appends to one of the two lists of a casting it was returned
ModifyLines ==
  /\ touched = "none"
  /\ \E who \in {"earlier", "later"} :
       LET v == IF who = "earlier" THEN earlier ELSE later IN
       /\ v.kind = "pair"
       /\ \E k \in 1..2 :
            heap' = [heap EXCEPT ![v.refs[k]] = Append(@, Marker)]
       /\ touched' = who
  /\ UNCHANGED <<earlier, later>>
  /\ UNCHANGED <<mainvars, geovars, tablevars, hourvars, histvars>>

NextFresh ==
  \/ CallSquare
  \/ CallCaster
  \/ ModifySquare
  \/ ModifyLines

SpecFresh == Init /\ [][NextFresh]_vars

\* display_square on its own: handed any square of up to MaxDisplaySize rows
\* (the empty one too) whose cells all hold one number of 0..MaxFill
InitDisplay ==
  /\ pc = "display" /\ last = "input"
  /\ method = "" /\ hexagram_lines = <<>> /\ changing_lines = <<>>
  /\ line_num = 0 /\ totals = <<>> /\ heads = 0
  /\ line_position = 0 /\ division = 0 /\ stalks = 0 /\ line_value = 0
  /\ thirds = <<>> /\ values = <<>>
  /\ ret_lines = <<>> /\ padded = 0
  /\ secondary_lines = <<>> /\ secondary_binary = <<>>
  /\ result = NoResult
  /\ \E n \in 0..MaxDisplaySize, v \in 0..MaxFill :
       /\ square = [r \in 1..n |-> [c \in 1..n |-> v]]
       /\ size = n
  /\ planet_name = ""
  /\ sq_i = 0 /\ sq_j = 0 /\ num = 0
  /\ size_arg = 0 /\ requested = 0 /\ input_is_int = TRUE
  /\ message = "" /\ printed = <<>> /\ saved = FALSE
  /\ ExtInit

NextDisplay ==
  \/ DisplaySquare
  \/ SaveSquare

SpecDisplay == InitDisplay /\ [][NextDisplay]_vars

\* ---------------------------------------------------------------- claims

\* the set of the elements of a sequence
Elems(s) == {s[k] : k \in 1..Len(s)}

\* no element of the sequence occurs twice
NoDuplicates(s) == \A a, b \in 1..Len(s) : s[a] = s[b] => a = b

RECURSIVE SumSeq(_)
SumSeq(s) == IF s = <<>> THEN 0 ELSE Head(s) + SumSeq(Tail(s))

\* sq is n rows of n entries
IsSquareOfSize(sq, n) == Len(sq) = n /\ \A r \in 1..n : Len(sq[r]) = n

\* every row, every column and both main diagonals of sq sum to m
AllLinesSum(sq, m) ==
  LET n == Len(sq) IN
  /\ \A r \in 1..n : SumSeq(sq[r]) = m
  /\ \A c \in 1..n : SumSeq([r \in 1..n |-> sq[r][c]]) = m
  /\ SumSeq([k \in 1..n |-> sq[k][k]]) = m
  /\ SumSeq([k \in 1..n |-> sq[k][n + 1 - k]]) = m

\* sq holds each of 1..n^2 exactly once: n^2 cells whose values are 1..n^2
HoldsEachOnce(sq, n) ==
  /\ IsSquareOfSize(sq, n)
  /\ {sq[r][c] : r \in 1..n, c \in 1..n} = 1..(n * n)

\* the magic constants the specification lists for the sizes 3..9
ListedConstant(n) ==
  CASE n = 3 -> 15 [] n = 4 -> 34 [] n = 5 -> 65 [] n = 6 -> 111
    [] n = 7 -> 175 [] n = 8 -> 260 [] n = 9 -> 369 [] OTHER -> -1

\* the size the specification gives each planet's square
ListedSize(p) ==
  CASE p = "Saturn" -> 3 [] p = "Jupiter" -> 4 [] p = "Mars" -> 5 [] p = "Sun" -> 6
    [] p = "Venus" -> 7 [] p = "Mercury" -> 8 [] p = "Moon" -> 9 [] OTHER -> 3

\* C1 (as claimed): whenever a caster (cast_coins, cast_yarrow_stalks or the
\* uniform-random branch) has returned, the line list it returned has exactly
\* 6 elements, each 0 or 1.
C1_CasterReturnsSixLines ==
  pc = "returned" =>
    /\ Len(ret_lines) = 6
    /\ \A k \in 1..Len(ret_lines) : ret_lines[k] \in {0, 1}

\* C2 (as claimed): in the yarrow method the remainder-sum of every third
\* division is 4 or 8, and the line value of every line is one of 6, 7, 8, 9.
C2_YarrowThirdDivision ==
  /\ \A k \in 1..Len(thirds) : thirds[k] \in {4, 8}
  /\ \A k \in 1..Len(values) : values[k] \in {6, 7, 8, 9}

\* C3: in the coin method every line total is in {6,7,8,9}; the k-th line
\* cast is yin and changing for 6, yang and stable for 7, yin and stable for
\* 8, yang and changing for 9; so k is in the changing list exactly when the
\* k-th total is 6 or 9.  (The k-th line cast is element k of hexagram_lines
\* inside cast_coins and, after the reversal, element 7 - k.)
C3_CoinTotals ==
  method = "coins" =>
    /\ Len(totals) = line_num
    /\ Len(hexagram_lines) = line_num
    /\ Elems(changing_lines) \subseteq 1..line_num
    /\ \A k \in 1..line_num :
         LET line == IF pc = "coins" THEN hexagram_lines[k] ELSE hexagram_lines[7 - k]
             changing == k \in Elems(changing_lines)
         IN /\ totals[k] \in {6, 7, 8, 9}
            /\ totals[k] = 6 => line = 0 /\ changing
            /\ totals[k] = 7 => line = 1 /\ ~changing
            /\ totals[k] = 8 => line = 0 /\ ~changing
            /\ totals[k] = 9 => line = 1 /\ changing

\* C3 witness: cast_coins has returned a casting in which all four totals occurred
C3_Witness ==
  /\ method = "coins" /\ pc = "returned"
  /\ Elems(totals) = {6, 7, 8, 9}

\* C4: whenever a casting has been made, by any method, the changing-line
\* list (the caster's and the one in the result) holds only numbers of 1..6
\* and holds none of them twice.
C4_ChangingInRange ==
  /\ (pc = "returned" \/ last = "cast") =>
       /\ Elems(changing_lines) \subseteq 1..6
       /\ NoDuplicates(changing_lines)
  /\ last = "cast" =>
       /\ Elems(result.changing_lines) \subseteq 1..6
       /\ NoDuplicates(result.changing_lines)

\* C4 witness: a finished coin casting with at least three changing lines
C4_Witness ==
  /\ last = "cast" /\ method = "coins"
  /\ Len(result.changing_lines) >= 3

\* C5: when a casting has changing lines, the secondary hexagram S has
\* S[6-n] = 1 - H[6-n] for every n of the changing list and S[i] = H[i] at
\* every other index (indices 0-based), where H is the primary hexagram; and
\* the lines and the binary key in the result are still those of the
\* hexagram the caster returned.
C5_SecondaryDerivation ==
  (last = "cast" /\ result.changing_lines # <<>>) =>
    LET H == result.lines
        S == secondary_lines
        C == Elems(result.changing_lines)
    IN /\ result.has_secondary
       /\ Len(H) = 6 /\ Len(S) = 6
       /\ \A n \in C : S[(6 - n) + 1] = 1 - H[(6 - n) + 1]
       /\ \A idx \in 0..5 : (\A n \in C : idx # 6 - n) => S[idx + 1] = H[idx + 1]
       /\ padded = 0 /\ H = ret_lines
       /\ Len(result.binary) = 6
       /\ \A k \in 1..6 : result.binary[k] = (IF ret_lines[k] = 1 THEN "1" ELSE "0")

\* C5 witness: a finished casting whose changing lines are 2 and 5, on a
\* primary hexagram with both yin and yang lines
C5_Witness ==
  /\ last = "cast"
  /\ result.changing_lines = <<2, 5>>
  /\ result.lines = <<1, 0, 0, 1, 1, 0>>
  /\ secondary_lines = <<1, 1, 0, 1, 0, 0>>

\* C6: applying the secondary-hexagram flip for the changing list of a
\* casting to its secondary hexagram gives back the primary hexagram (and
\* flipping for an empty list changes nothing).
C6_FlipInvolution ==
  last = "cast" =>
    /\ result.has_secondary =>
         FlipLines(secondary_lines, result.changing_lines) = result.lines
    /\ FlipLines(FlipLines(result.lines, result.changing_lines),
                 result.changing_lines) = result.lines

\* C6 witness: a finished casting with changing lines 1, 3 and 4 whose
\* secondary hexagram differs from the primary
C6_Witness ==
  /\ last = "cast" /\ result.has_secondary
  /\ result.changing_lines = <<1, 3, 4>>
  /\ secondary_lines # result.lines

\* C7: a coin casting in which all 18 coins showed heads has every total 9,
\* all 6 lines yang, the changing list 1..6, the primary binary key "111111"
\* and the secondary binary key "000000".
C7_AllHeads ==
  (last = "cast" /\ method = "coins" /\ heads = NumLines * NumCoins) =>
    /\ totals = <<9, 9, 9, 9, 9, 9>>
    /\ result.lines = <<1, 1, 1, 1, 1, 1>>
    /\ result.changing_lines = <<1, 2, 3, 4, 5, 6>>
    /\ result.binary = <<"1", "1", "1", "1", "1", "1">>
    /\ result.has_secondary
    /\ secondary_binary = <<"0", "0", "0", "0", "0", "0">>

\* C7 witness: a finished coin casting in which all 18 coins showed heads
C7_Witness ==
  /\ last = "cast" /\ method = "coins"
  /\ heads = 18

\* C8: every fixed planetary square is N rows of N entries, N the size
\* listed for its planet, and every row sum, column sum and both diagonal
\* sums equal N*(N^2+1)/2, which is 15, 34, 65, 111, 175, 260, 369 for
\* N = 3..9.
C8_FixedSquaresMagic ==
  last = "planet" =>
    LET n == ListedSize(planet_name) IN
    /\ IsSquareOfSize(square, n)
    /\ ListedConstant(n) * 2 = n * (n * n + 1)
    /\ AllLinesSum(square, ListedConstant(n))

\* C8 witness: the Sun square (6x6) has been returned
C8_Witness ==
  /\ last = "planet" /\ planet_name = "Sun"
  /\ Len(square) = 6

\* C9: every fixed planetary square of size N holds each integer of 1..N^2
\* exactly once.
C9_FixedSquaresHoldEachOnce ==
  last = "planet" => HoldsEachOnce(square, ListedSize(planet_name))

\* C9 witness: the Mercury square (8x8) has been returned
C9_Witness ==
  /\ last = "planet" /\ planet_name = "Mercury"
  /\ Len(square) = 8

\* C10: for every odd size N of 3, 5, 7, 9 the square generate_custom_square
\* returns holds each integer of 1..N^2 exactly once, and every row sum,
\* column sum and both diagonal sums equal N*(N^2+1)/2 (15, 65, 175, 369).
C10_SiameseMagic ==
  (last = "custom" /\ size % 2 = 1) =>
    /\ size \in {3, 5, 7, 9}
    /\ HoldsEachOnce(square, size)
    /\ ListedConstant(size) * 2 = size * (size * size + 1)
    /\ AllLinesSum(square, ListedConstant(size))

\* C10 witness: the Siamese construction has returned a 7x7 square
C10_Witness ==
  /\ last = "custom" /\ size = 7
  /\ square[1][4] = 1

\* the seven planets the specification names
SevenPlanets == {"Saturn", "Jupiter", "Mars", "Sun", "Venus", "Mercury", "Moon"}

\* the Saturn square as the specification writes it
LoShu == <<<<4, 9, 2>>, <<3, 5, 7>>, <<8, 1, 6>>>>

\* C11: get_square_by_planet returns (square, size) with size the number of
\* rows of the square and the size listed for the planet (Saturn 3 .. Moon 9);
\* Saturn gives [[4,9,2],[3,5,7],[8,1,6]]; any name outside the seven gives
\* that same square with size 3; the size argument never changes the result.
C11_SquareByPlanet ==
  last = "planet" =>
    /\ size = Len(square)
    /\ size = ListedSize(planet_name)
    /\ planet_name = "Saturn" => square = LoShu
    /\ planet_name \notin SevenPlanets => (square = LoShu /\ size = 3)
    /\ \A s \in SizeArgs :
         get_square_by_planet(planet_name, s) = [square |-> square, size |-> size]

\* C11 witness: an unknown planet was asked for together with the size 4
C11_Witness ==
  /\ last = "planet" /\ planet_name = "Pluto"
  /\ size_arg = 4 /\ size = 3

\* the trigram names the specification gives the eight 3-character patterns
ClaimedTrigramName(t) ==
  CASE t = <<"1","1","1">> -> "Heaven"
    [] t = <<"1","1","0">> -> "Lake"
    [] t = <<"1","0","1">> -> "Fire"
    [] t = <<"1","0","0">> -> "Thunder"
    [] t = <<"0","1","1">> -> "Wind"
    [] t = <<"0","1","0">> -> "Water"
    [] t = <<"0","0","1">> -> "Mountain"
    [] t = <<"0","0","0">> -> "Earth"

\* the eight 3-character patterns
ThreeBits == [1..3 -> {"0", "1"}]

\* C12: for the binary key of every casting, get_trigram_symbols returns the
\* pair (lower, upper) in which upper is the symbol of characters [0:3] and
\* lower the symbol of characters [3:6] under the table 111 Heaven, 110 Lake,
\* 101 Fire, 100 Thunder, 011 Wind, 010 Water, 001 Mountain, 000 Earth, as
\* get_trigram_name names them; the eight symbols are distinct and neither
\* "?" nor "Unknown" is ever produced.
C12_TrigramResolution ==
  last = "cast" =>
    LET b == result.binary
        pair == get_trigram_symbols(b)
    IN /\ Len(b) = 6
       /\ pair = <<result.trigram_symbols.lower, result.trigram_symbols.upper>>
       /\ get_trigram_name(pair[2]) = ClaimedTrigramName(SubSeq(b, 1, 3))
       /\ get_trigram_name(pair[1]) = ClaimedTrigramName(SubSeq(b, 4, 6))
       /\ pair[1] # "?" /\ pair[2] # "?"
       /\ get_trigram_name(pair[1]) # "Unknown" /\ get_trigram_name(pair[2]) # "Unknown"
       /\ Cardinality({TrigramGet(t) : t \in ThreeBits}) = 8

\* C12 witness: a casting with the key "110001", Lake over Mountain
C12_Witness ==
  /\ last = "cast"
  /\ result.binary = <<"1", "1", "0", "0", "0", "1">>
  /\ get_trigram_name(result.trigram_symbols.upper) = "Lake"
  /\ get_trigram_name(result.trigram_symbols.lower) = "Mountain"

\* C13: for every method and all random draws the result's binary key has
\* exactly 6 characters, each "0" or "1", and equals character by character
\* the rendering of the result's 6-element lines list (binary[i] = "1" iff
\* lines[i] = 1).
C13_BinaryRendersLines ==
  last = "cast" =>
    /\ Len(result.binary) = 6
    /\ Len(result.lines) = 6
    /\ \A k \in 1..6 :
         /\ result.binary[k] \in {"0", "1"}
         /\ result.binary[k] = "1" <=> result.lines[k] = 1

\* C13 witness: a casting by the yarrow method, whose six lines all came from
\* the padding, with a yang line on top
C13_Witness ==
  /\ last = "cast" /\ method = "yarrow"
  /\ padded = 6
  /\ result.binary[1] = "1" /\ result.lines[1] = 1

\* the keys the result dict can hold
KnownResultKeys ==
  {"binary", "lines", "changing_lines", "primary", "trigram_symbols",
   "secondary", "secondary_trigram_symbols"}

\* C14: the result holds a secondary hexagram entry and a secondary trigram
\* pair exactly when the changing-line list is non-empty (both or neither);
\* nothing else is stored for the secondary: no changing lines of its own.
C14_SecondaryIffChanging ==
  last = "cast" =>
    /\ "secondary" \in result.keys <=> result.changing_lines # <<>>
    /\ "secondary_trigram_symbols" \in result.keys <=> result.changing_lines # <<>>
    /\ result.keys \subseteq KnownResultKeys
    /\ "changing_lines" \notin result.secondary_fields
    /\ result.changing_lines = changing_lines

\* C14 witness: a casting with changing lines, holding both secondary entries
C14_Witness ==
  /\ last = "cast"
  /\ Len(result.changing_lines) = 2
  /\ {"secondary", "secondary_trigram_symbols"} \subseteq result.keys

\* C15: "coins" runs the coin method (six coin totals), "yarrow" runs the
\* yarrow method (six line values), every other method string runs the
\* uniform-random method: six lines of 0 or 1, none from padding, an empty
\* changing-line list and no secondary hexagram.
C15_MethodDispatch ==
  last = "cast" =>
    /\ method = "coins" => (Len(totals) = 6 /\ values = <<>>)
    /\ method = "yarrow" => (Len(values) = 6 /\ totals = <<>>)
    /\ method \notin {"coins", "yarrow"} =>
         /\ totals = <<>> /\ values = <<>>
         /\ padded = 0
         /\ result.lines \in [1..6 -> {0, 1}]
         /\ result.changing_lines = <<>>
         /\ "secondary" \notin result.keys
         /\ secondary_lines = <<>>

\* C15 witness: a casting asked for with the unrecognized method "dice"
C15_Witness ==
  /\ last = "cast" /\ method = "dice"
  /\ result.lines = <<1, 0, 1, 0, 0, 1>>

\* C19 (as claimed): when changing lines exist, the result record holds the
\* secondary binary key, under a key of its own or inside the secondary
\* entry, together with the secondary trigram pair.
C19_SecondaryBinaryInResult ==
  (last = "cast" /\ result.changing_lines # <<>>) =>
    /\ "secondary_binary" \in result.keys \/ "binary" \in result.secondary_fields
    /\ "secondary_trigram_symbols" \in result.keys

\* a quarter turn and a mirror image of a square, and the eight squares they
\* generate: the rotations and reflections of sq
QuarterTurn(sq) ==
  LET n == Len(sq) IN [r \in 1..n |-> [c \in 1..n |-> sq[n + 1 - c][r]]]
Mirror(sq) ==
  LET n == Len(sq) IN [r \in 1..n |-> [c \in 1..n |-> sq[r][n + 1 - c]]]
Rotations(sq) ==
  {sq, QuarterTurn(sq), QuarterTurn(QuarterTurn(sq)),
   QuarterTurn(QuarterTurn(QuarterTurn(sq)))}
Symmetries(sq) == Rotations(sq) \cup Rotations(Mirror(sq))

\* C16: the square the Siamese construction returns for N = 3 is one of the 8
\* rotations and reflections of the fixed Saturn square
\* [[4,9,2],[3,5,7],[8,1,6]].
C16_SiameseIsLoShu ==
  (last = "custom" /\ size = 3) =>
    /\ generate_saturn_square = LoShu
    /\ Cardinality(Symmetries(generate_saturn_square)) = 8
    /\ square \in Symmetries(generate_saturn_square)

\* C16 witness: the Siamese construction has returned its 3x3 square, with
\* 1 in the middle of the top row and 9 in the middle of the bottom row
C16_Witness ==
  /\ last = "custom" /\ size = 3
  /\ square[1][2] = 1 /\ square[3][2] = 9

\* C17: for every even N of 4, 6, 8 the square generate_custom_square returns
\* is the row-major sequential fill (cell (i,j), 0-based, is i*N + j + 1; each
\* of 1..N^2 once) and is not magic: not all of its row, column and diagonal
\* sums equal N*(N^2+1)/2.
C17_EvenSequentialFill ==
  (last = "custom" /\ size % 2 = 0) =>
    /\ size \in {4, 6, 8}
    /\ \A r \in 1..size, c \in 1..size : square[r][c] = (r - 1) * size + (c - 1) + 1
    /\ HoldsEachOnce(square, size)
    /\ ListedConstant(size) * 2 = size * (size * size + 1)
    /\ ~AllLinesSum(square, ListedConstant(size))

\* C17 witness: the even branch has returned a 6x6 square ending in 36
C17_Witness ==
  /\ last = "custom" /\ size = 6
  /\ square[1][1] = 1 /\ square[6][6] = 36

\* the menu has answered a request for a custom square: it was turned down,
\* or the square was built
CustomAnswered == last \in {"custom", "rejected"}

\* what "no square is produced, displayed or saved, and an error is
\* reported" means in the state
TurnedDown ==
  /\ last = "rejected"
  /\ message # ""
  /\ square = <<>> /\ printed = <<>> /\ ~saved

\* C18 (as claimed): a request whose size is outside [3,9], or even, ends in
\* an invalid-size error and no square produced, displayed or saved.
C18_InvalidSizesRejected ==
  (CustomAnswered /\ (~input_is_int \/ requested < 3 \/ requested > 9
                                     \/ requested % 2 = 0)) => TurnedDown

\* C18 (amended): a request whose size is not an integer or is outside [3,9]
\* ends in an error message, no square produced, displayed or saved, and the
\* menu returned to its caller; every integer size of 3..9, even ones too, is
\* answered with a square of that size and no error message.
C18_OutOfRangeRejected ==
  CustomAnswered =>
    IF ~input_is_int \/ requested < 3 \/ requested > 9
      THEN TurnedDown /\ pc = "idle" /\ ENABLED Next
      ELSE /\ last = "custom" /\ message = ""
           /\ size = requested /\ IsSquareOfSize(square, requested)

\* C18 witness: the size 10 was asked for and turned down
C18_Witness ==
  /\ last = "rejected" /\ input_is_int /\ requested = 10
  /\ message = "Size must be between 3 and 9"

\* the number of decimal digits of m, by the powers of ten around it
ClaimedDigits(m) ==
  CHOOSE d \in 1..6 : (m = 0 /\ d = 1) \/ (10 ^ (d - 1) <= m /\ m < 10 ^ d)

\* C20: for a square of N rows, whatever its cells hold, display_square
\* reports the magic constant N*(N^2+1)/2, the division being exact, and
\* uses the cell width (decimal digits of N^2) + 2; for the empty square it
\* returns the empty string.
C20_DisplayConstant ==
  printed # <<>> =>
    LET text == printed[Len(printed)]
        n == Len(square)
    IN IF n = 0
         THEN text.empty
         ELSE /\ ~text.empty
              /\ text.size = n
              /\ (n * (n * n + 1)) % 2 = 0
              /\ text.magic_constant * 2 = n * (n * n + 1)
              /\ text.cell_width = ClaimedDigits(n * n) + 2
              /\ text.cells = square

\* C20 witness: a 32x32 square holding 2 in every cell (so not magic) was
\* displayed, with the constant 16400 and cells 6 wide
C20_Witness ==
  /\ printed # <<>>
  /\ Len(square) = 32 /\ square[1][1] = 2 /\ square[32][32] = 2
  /\ printed[1].magic_constant = 16400
  /\ printed[1].cell_width = 6

\* what the specification says a third-division remainder sum contributes
ClaimedContribution(r) == IF r = 4 THEN 2 ELSE IF r = 8 THEN 3 ELSE 0

\* C22 (as claimed): the line value is what the third-division sum
\* contributes (4 gives 2, 8 gives 3, anything else 0), and third-division
\* sums of 5 and of 7 are both produced by some choice of splits.
C22_FiveAndSevenReachable ==
  /\ \A k \in 1..Len(values) : values[k] = ClaimedContribution(thirds[k])
  /\ {5, 7} \subseteq ThirdDivisionSums

\* C22 (amended): the line value is what the third-division sum contributes
\* (4 gives 2, 8 gives 3, anything else 0); the third-division sums that
\* some choice of splits produces are 3 and 7 and no others (never 5, 4 or
\* 8), so the line value is always 0.
C22_ThirdDivisionRule ==
  /\ \A r \in 2..8 : LineValueOf(r) = ClaimedContribution(r)
  /\ ThirdDivisionSums = {3, 7}
  /\ \A k \in 1..Len(thirds) : thirds[k] \in {3, 7}
  /\ Len(values) <= Len(thirds)
  /\ \A k \in 1..Len(values) :
       values[k] = ClaimedContribution(thirds[k]) /\ values[k] = 0

\* C22 witness: a yarrow casting whose first line had the third-division
\* sum 3 and whose second had 7
C22_Witness ==
  /\ method = "yarrow" /\ Len(values) = 6
  /\ thirds[1] = 3 /\ thirds[2] = 7
  /\ values[1] = 0 /\ values[2] = 0

\* the values cast, in casting order: the coin totals or the yarrow line values
CastValues == IF method = "coins" THEN totals ELSE values

\* C23 (as claimed): in the pair cast_coins or cast_yarrow_stalks returns,
\* for every n in 1..6 the line at index 6-n of the hexagram is the n-th line
\* cast, and n is in the changing list iff that line was cast as 6 or 9.
C23_ChangingPointsAtCast ==
  (pc = "returned" /\ method \in {"coins", "yarrow"}) =>
    /\ Len(CastValues) = 6
    /\ Len(ret_lines) = 6
    /\ \A n \in 1..6 :
         /\ ret_lines[(6 - n) + 1] = LineOf(CastValues[n])
         /\ (\E k \in 1..Len(changing_lines) : changing_lines[k] = n)
              <=> CastValues[n] \in {6, 9}

\* the cell (row, column, 0-based) of the square that holds k
PosOf(k) ==
  CHOOSE p \in (0..(size - 1)) \X (0..(size - 1)) : square[p[1] + 1][p[2] + 1] = k

Filled == {p \in (1..size) \X (1..size) : square[p[1]][p[2]] # 0}

C26_YarrowLinesNotPadded ==
  (last = "cast" /\ method = "yarrow") =>
    /\ padded = 0
    /\ Len(ret_lines) = 6

\* C27: for every geomantic dict with a planet p, one of the seven or any
\* other string, get_magic_square_for_geomantic returns the matrix that
\* get_square_by_planet(p) returns as its square; a dict with no "planet"
\* key gets the Moon 9x9 square.
C27_LookupsAgree ==
  last = "geosquare" =>
    IF "planet" \in DOMAIN geomantic
      THEN geo_square = get_square_by_planet(geomantic["planet"], 0).square
      ELSE geo_square = generate_moon_square /\ Len(geo_square) = 9

\* C27 witness: a dict with no "planet" key was handed in and the Moon
\* square came back
C27_Witness ==
  /\ last = "geosquare"
  /\ "planet" \notin DOMAIN geomantic
  /\ Len(geo_square) = 9

\* C30 (as claimed): whatever readings have been generated, the geomancy
\* figure table and the hexagram table equal their values right after
\* loading, key by key and field by field.
C30_TablesUnchanged ==
  /\ geomancy_figures = LoadedGeomancyFigures
  /\ iching_hexagrams = LoadedHexagrams

\* the entries of the schedule for the part of the day and the hour the
\* calculator returned
ScheduleEntries ==
  {k \in 1..Len(schedule) :
     /\ schedule[k].type = (IF hour_result.is_daytime THEN "day" ELSE "night")
     /\ schedule[k].hour = hour_result.hour_number}

\* C28 (as claimed): for every weekday and time of day the calculator's
\* hour_number is in 1..12, is_daytime holds exactly for 06:00 <= t < 18:00,
\* and its planet is the planet of the schedule entry of the same date with
\* the matching type and hour.
C28_HourMatchesSchedule ==
  (hour_result # NoHour /\ schedule # <<>>) =>
    /\ hour_result.hour_number \in 1..12
    /\ hour_result.is_daytime <=> (6 * 60 <= now /\ now < 18 * 60)
    /\ ScheduleEntries # {}
    /\ \A k \in ScheduleEntries : schedule[k].planet = hour_result.planet

\* the ids of the history, in order
HistoryIds == [k \in 1..Len(history) |-> history[k].id]

\* C29: starting from an empty history, after any adds and clears the k-th
\* entry has id k (so ids are unique), an add appends one entry and leaves
\* the earlier ones as they were, and view_detailed_reading(id) shows the
\* entry whose id is the id asked for.
C29_HistoryIds ==
  /\ \A k \in 1..Len(history) : history[k].id = k
  /\ \A j, k \in 1..Len(history) : history[j].id = history[k].id => j = k
  /\ last_op = "add" =>
       /\ Len(history) = Len(before) + 1
       /\ SubSeq(history, 1, Len(before)) = before
       /\ history[Len(history)].query = query
  /\ (last_op = "view" /\ viewed.valid) =>
       /\ viewed.reading.id = viewed.heading
       /\ \E k \in 1..Len(history) : history[k] = viewed.reading

\* C29 witness: after a clear of the history two readings were added and
\* the second of them was viewed
C29_Witness ==
  /\ cleared
  /\ last_op = "view" /\ viewed.valid
  /\ Len(history) = 2
  /\ viewed.heading = 2 /\ viewed.reading.id = 2
  /\ viewed.reading.query = "what now"

\* the addresses of the list objects a returned value is made of
Objects(v) ==
  IF v.kind = "square"
    THEN {v.refs[1]} \cup {heap[v.refs[1]][r] : r \in 1..Len(heap[v.refs[1]])}
    ELSE {v.refs[k] : k \in 1..Len(v.refs)}

\* C21: the values two calls returned share no list object, whatever the
\* calls (square generation or casting); a modification made through one of
\* them leaves the other, returned earlier or later, with the value its call
\* returned.
C21_FreshInstances ==
  /\ (earlier # NoValue /\ later # NoValue) =>
       Objects(earlier) \cap Objects(later) = {}
  /\ (earlier # NoValue /\ touched # "earlier") =>
       DeepValue(heap, earlier) = earlier.value
  /\ (later # NoValue /\ touched # "later") =>
       DeepValue(heap, later) = later.value
  /\ touched = "earlier" => DeepValue(heap, earlier) # earlier.value
  /\ touched = "later" => DeepValue(heap, later) # later.value

\* C21 witness: the Saturn square was returned twice with equal values and
\* the one returned first has been modified
C21_Witness ==
  /\ earlier.call = "get_square_by_planet" /\ later.call = "generate_square"
  /\ earlier.value = LoShu /\ later.value = LoShu
  /\ touched = "earlier"
  /\ DeepValue(heap, earlier)[1][1] = Marker
  /\ DeepValue(heap, later) = LoShu

====
